---- MODULE Spec2Model ----
(***************************************************************************)
(* A model of redisai/client.py: the RedisAI client, a subclass of the     *)
(* redis-py StrictRedis client.  Every public method builds an argument    *)
(* sequence, hands it to execute_command and decodes the reply.            *)
(*                                                                         *)
(* Two clients are run side by side on the same calls: one constructed     *)
(* with debug=False and one with debug=True, each talking to its own copy  *)
(* of the server.  State variables are indexed by the debug flag.          *)
(***************************************************************************)
EXTENDS Integers, Sequences, FiniteSets, TLC

VARIABLES
    calls,      \* number of public operations called so far
    op,         \* the last call: the method's name and its arguments
    nsent,      \* nsent[d]: requests handed to the transport since construction
    db,         \* db[d]: the server's tensor store, key -> stored tensor
    res         \* res[d]: how the last call went (see Start)

vars == <<calls, op, nsent, db, res>>

(***************************************************************************)
(* Bounds of the model.                                                    *)
(***************************************************************************)
MaxCalls == 2       \* operations called in one run
MaxElems == 2       \* elements of a tensor

(***************************************************************************)
(* Python values, tagged with their type.                                  *)
(***************************************************************************)
None == [t |-> "None", v |-> "None"]
S(s) == [t |-> "str", v |-> s]
I(n) == [t |-> "int", v |-> n]
F(s) == [t |-> "float", v |-> s]
Bool(b) == [t |-> "bool", v |-> b]
L(q) == [t |-> "list", v |-> q]
Tup(q) == [t |-> "tuple", v |-> q]
Dict(f) == [t |-> "dict", v |-> f]
\* a bytes object holding text
BT(s) == [t |-> "bytes", v |-> s]
\* a bytes object holding raw memory, as a sequence of bytes 0..255
Blob(bs) == [t |-> "blob", v |-> bs]
NDArray(dtype, shape, data) ==
    [t |-> "ndarray", v |-> [dtype |-> dtype, shape |-> shape, data |-> data]]

\* Python's truth value of an object
Truthy(x) ==
    CASE x.t = "None" -> FALSE
      [] x.t = "bool" -> x.v
      [] x.t = "int" -> x.v # 0
      [] x.t = "str" -> x.v # ""
      [] x.t \in {"list", "tuple"} -> x.v # <<>>
      [] OTHER -> TRUE

\* a variant of all: any((inputs, outputs))
all_any(xs) == \E i \in 1..Len(xs) : Truthy(xs[i])

\* the all((inputs, outputs)) of modelset
all(xs) == \A i \in 1..Len(xs) : Truthy(xs[i])

\* str.upper() and str.lower(), on the strings the model uses
upper(s) ==
    CASE s \in {"TF", "tf", "Tf"} -> "TF"
      [] s \in {"TORCH", "torch"} -> "TORCH"
      [] OTHER -> s

lower(s) ==
    CASE s \in {"DTYPE", "dtype"} -> "dtype"
      [] s \in {"SHAPE", "shape"} -> "shape"
      [] s \in {"BLOB", "blob"} -> "blob"
      [] s \in {"VALUES", "values"} -> "values"
      [] s \in {"BACKEND", "backend"} -> "backend"
      [] s \in {"DEVICE", "device"} -> "device"
      [] s \in {"SOURCE", "source"} -> "source"
      [] s \in {"KEY", "key"} -> "key"
      [] s \in {"CALLS", "calls"} -> "calls"
      [] OTHER -> s

RECURSIVE Product(_)
Product(q) == IF q = <<>> THEN 1 ELSE Head(q) * Product(Tail(q))

(***************************************************************************)
(* The course of a call: the server store it leaves (db), the argument     *)
(* sequences it handed to the transport (reqs), what it printed, the       *)
(* error the transport raised if any (terr), the reply fields it read      *)
(* (read), and either the value returned (exc = "") or the exception       *)
(* raised (exc).                                                           *)
(***************************************************************************)
Start(self) ==
    [db |-> self.db, reqs |-> <<>>, printed |-> <<>>, terr |-> "", read |-> {},
     exc |-> "", v |-> None]
Return(fr, val) == [fr EXCEPT !.exc = "", !.v = val]
Raise(fr, e) == [fr EXCEPT !.exc = e, !.v = None]

(***************************************************************************)
(* redisai/utils.py: the helpers client.py calls.                          *)
(***************************************************************************)
\* an exception raised inside a helper, carried as a value
Exc(e) == [t |-> "exc", v |-> e]

\* bytes.decode(): defined on bytes objects only
decode(x) ==
    CASE x.t = "bytes" -> S(x.v)
      [] x.t = "blob" -> Exc("UnicodeDecodeError")
      [] OTHER -> Exc("AttributeError")

\* a single name is wrapped into a sequence; a list or tuple is passed on
listify(inp) == IF inp.t \in {"list", "tuple"} THEN inp.v ELSE <<inp>>

\* a reply value as list2dict stores it: text is decoded, a list element-wise
RECURSIVE dictvalue(_)
dictvalue(x) ==
    CASE x.t = "bytes" -> S(x.v)
      [] x.t = "list" -> L([i \in 1..Len(x.v) |-> dictvalue(x.v[i])])
      [] OTHER -> x

\* the flat reply key1, value1, key2, value2, ... folded into a mapping with
\* lower-cased text keys; a later entry of the same key replaces an earlier one
list2dict(lst) ==
    LET n == Len(lst.v) \div 2
        key(i) == lower(lst.v[2 * i - 1].v)
        keys == {key(i) : i \in 1..n}
        last(k) == CHOOSE i \in 1..n : key(i) = k /\ \A j \in 1..n : key(j) = k => j <= i
    IN  Dict([k \in keys |-> dictvalue(lst.v[2 * last(k)])])

\* float(x) and int(x) of one reply element
IntOfText(s) ==
    CASE s = "0" -> I(0) [] s = "1" -> I(1) [] s = "2" -> I(2) [] s = "3" -> I(3)
      [] OTHER -> Exc("ValueError")

coerce(x, target) ==
    IF target = "float"
    THEN CASE x.t = "int" -> F(ToString(x.v) \o ".0")
           [] x.t \in {"str", "bytes"} -> F(x.v)
           [] x.t = "float" -> x
           [] OTHER -> Exc("TypeError")
    ELSE CASE x.t = "int" -> x
           [] x.t \in {"str", "bytes"} -> IntOfText(x.v)
           [] OTHER -> Exc("TypeError")

\* every element of the list converted to the target type
un_bytize(arr, target) ==
    LET conv == [i \in 1..Len(arr.v) |-> coerce(arr.v[i], target)]
    IN  IF \E i \in 1..Len(conv) : conv[i].t = "exc"
        THEN conv[CHOOSE i \in 1..Len(conv) :
                     conv[i].t = "exc" /\ \A j \in 1..(i - 1) : conv[j].t # "exc"]
        ELSE L(conv)

(***************************************************************************)
(* The tensor codec.  An array's element is the machine integer its memory *)
(* holds: the number itself for an integer type, the IEEE-754 bit pattern  *)
(* read as a signed integer of the same width for a floating-point type.   *)
(***************************************************************************)
NpDtypes == {"float32", "float64", "int8", "int16", "int32", "int64", "uint8", "uint16"}

itemsize(dt) ==
    CASE dt \in {"int8", "uint8"} -> 1
      [] dt \in {"int16", "uint16"} -> 2
      [] dt \in {"int32", "float32"} -> 4
      [] dt \in {"int64", "float64"} -> 8

signed(dt) == dt \notin {"uint8", "uint16"}

\* the dtype tag of the wire form, and the element type a tag names
dtype_dict(dt) ==
    CASE dt = "float32" -> "FLOAT" [] dt = "float64" -> "DOUBLE"
      [] dt = "int8" -> "INT8" [] dt = "int16" -> "INT16"
      [] dt = "int32" -> "INT32" [] dt = "int64" -> "INT64"
      [] dt = "uint8" -> "UINT8" [] dt = "uint16" -> "UINT16"

Tags == {dtype_dict(dt) : dt \in NpDtypes}
np_dtype(tag) == CHOOSE dt \in NpDtypes : dtype_dict(dt) = tag

\* little-endian two's complement, w bytes
RECURSIVE tobytes(_, _)
tobytes(x, w) == IF w = 0 THEN <<>> ELSE <<x % 256>> \o tobytes(x \div 256, w - 1)

RECURSIVE frombytes(_, _)
frombytes(bs, sgn) ==
    IF Len(bs) = 1
    THEN (IF sgn /\ bs[1] >= 128 THEN bs[1] - 256 ELSE bs[1])
    ELSE bs[1] + 256 * frombytes(Tail(bs), sgn)

RECURSIVE memory(_, _)
memory(data, w) == IF data = <<>> THEN <<>> ELSE tobytes(Head(data), w) \o memory(Tail(data), w)

\* the (dtype, shape, blob) triple of a native array
numpy2blob(tensor) ==
    <<S(dtype_dict(tensor.v.dtype)),
      [i \in 1..Len(tensor.v.shape) |-> I(tensor.v.shape[i])],
      Blob(memory(tensor.v.data, itemsize(tensor.v.dtype)))>>

\* np.frombuffer(value, dtype).reshape(shape)
blob2numpy(value, shape, dtype) ==
    IF dtype.t # "str" \/ dtype.v \notin Tags \/ value.t # "blob" \/ shape.t # "list"
    THEN Exc("TypeError")
    ELSE LET dt == np_dtype(dtype.v)
             w == itemsize(dt)
             n == Len(value.v) \div w
             dims == [i \in 1..Len(shape.v) |-> shape.v[i].v]
         IN  IF Len(value.v) % w # 0 \/ Product(dims) # n
             THEN Exc("ValueError")
             ELSE NDArray(dt, dims,
                          [i \in 1..n |->
                              frombytes(SubSeq(value.v, (i - 1) * w + 1, i * w), signed(dt))])

(***************************************************************************)
(* The collaborators behind execute_command: redis-py's StrictRedis and    *)
(* the RedisAI server.  The server keeps the tensors it was sent and       *)
(* returns a stored tensor's dtype, shape and payload as stored.           *)
(***************************************************************************)
\* redis-py encodes bytes, text and numbers; any other argument is a DataError
Encodable(x) == x.t \in {"str", "int", "float", "bytes", "blob"}

\* the number an element stands for, as the server prints it, and back
FloatText(bits) ==
    CASE bits = 1065353216 -> "1.0" [] bits = 1073741824 -> "2.0"
      [] bits = 1077936128 -> "3.0" [] bits = -1082130432 -> "-1.0"
      [] bits = 0 -> "0.0" [] OTHER -> "nan"

FloatBits(n) ==
    CASE n = 1 -> 1065353216 [] n = 2 -> 1073741824 [] n = 3 -> 1077936128
      [] OTHER -> 0

IsFloatTag(tag) == tag \in {"FLOAT", "DOUBLE"}

\* the first BLOB or VALUES marker after the key and the dtype; 0 when none
MarkerIdx(args) ==
    LET is == {i \in 4..Len(args) : args[i] \in {S("BLOB"), S("VALUES")}}
    IN  IF is = {} THEN 0 ELSE CHOOSE i \in is : \A j \in is : i <= j

ServerReply(d, r) == [db |-> d, err |-> "", reply |-> r]
ServerError(d) == [db |-> d, err |-> "ResponseError", reply |-> None]

\* AI.TENSORSET key dtype shape... BLOB blob | VALUES value...
ServerTensorSet(d, args) ==
    LET m == MarkerIdx(args)
        shape == SubSeq(args, 4, m - 1)
        dims == [i \in 1..Len(shape) |-> shape[i].v]
        rest == SubSeq(args, m + 1, Len(args))
        wellformed ==
            /\ m # 0
            /\ args[3].t = "str" /\ args[3].v \in Tags
            /\ \A i \in 1..Len(shape) : shape[i].t = "int" /\ shape[i].v >= 0
            /\ IF args[m].v = "BLOB"
               THEN /\ Len(rest) = 1 /\ rest[1].t = "blob"
                    /\ Len(rest[1].v) = Product(dims) * itemsize(np_dtype(args[3].v))
               ELSE /\ Len(rest) = Product(dims)
                    /\ \A i \in 1..Len(rest) : rest[i].t = "int"
        elems ==
            IF args[m].v = "BLOB"
            THEN blob2numpy(rest[1], L(shape), args[3]).v.data
            ELSE [i \in 1..Len(rest) |->
                    IF IsFloatTag(args[3].v) THEN FloatBits(rest[i].v) ELSE rest[i].v]
    IN  IF ~wellformed THEN ServerError(d)
        ELSE ServerReply((args[2].v :> [dtype |-> args[3].v, shape |-> shape, data |-> elems]) @@ d,
                         BT("OK"))

\* AI.TENSORGET key META [BLOB | VALUES]
ServerTensorGet(d, args) ==
    IF Len(args) < 3 \/ args[2].v \notin DOMAIN d THEN ServerError(d)
    ELSE LET x == d[args[2].v]
             meta == <<BT("dtype"), BT(x.dtype), BT("shape"), L(x.shape)>>
             want == {args[i].v : i \in 3..Len(args)}
             blob == IF "BLOB" \in want
                     THEN <<BT("blob"), Blob(memory(x.data, itemsize(np_dtype(x.dtype))))>>
                     ELSE <<>>
             values == IF "VALUES" \in want
                       THEN <<BT("values"),
                              L([i \in 1..Len(x.data) |->
                                   IF IsFloatTag(x.dtype) THEN BT(FloatText(x.data[i]))
                                   ELSE I(x.data[i])])>>
                       ELSE <<>>
         IN  ServerReply(d, L(meta \o blob \o values))

\* the replies of the commands the model keeps no server state for
ServerOther(d, args) ==
    LET cmd == args[1].v
        has(w) == \E i \in 2..Len(args) : args[i] = S(w)
    IN  CASE cmd = "AI.MODELGET" ->
               ServerReply(d, L(<<BT("backend"), BT("TF"), BT("device"), BT("CPU")>>
                                \o IF has("BLOB") THEN <<BT("blob"), Blob(<<1, 2>>)>> ELSE <<>>))
          [] cmd = "AI.SCRIPTGET" ->
               ServerReply(d, L(<<BT("device"), BT("CPU")>>
                                \o IF has("SOURCE") THEN <<BT("source"), BT("def f(): pass")>> ELSE <<>>))
          [] cmd \in {"AI._MODELSCAN", "AI._SCRIPTSCAN"} ->
               ServerReply(d, L(<<BT("m")>>))
          [] cmd = "AI.INFO" /\ ~has("RESETSTAT") ->
               ServerReply(d, L(<<BT("KEY"), BT("m"), BT("CALLS"), I(0)>>))
          [] OTHER -> ServerReply(d, BT("OK"))

Server(d, args) ==
    CASE args[1] = S("AI.TENSORSET") -> ServerTensorSet(d, args)
      [] args[1] = S("AI.TENSORGET") -> ServerTensorGet(d, args)
      [] OTHER -> ServerOther(d, args)

\* StrictRedis.execute_command(*args): one request, then its reply or the error
\* of the transport.  self.fault is what the environment does to this request.
StrictRedis_execute_command(self, args) ==
    LET fr == [Start(self) EXCEPT !.reqs = <<args>>]
        fails(e) == [Raise(fr, e) EXCEPT !.terr = e]
    IN  IF self.fault = "conn" THEN fails("ConnectionError")
        ELSE IF \E i \in 1..Len(args) : ~Encodable(args[i]) THEN fails("DataError")
        ELSE IF self.fault = "resp" THEN fails("ResponseError")
        ELSE LET r == Server(self.db, args)
             IN  IF r.err # "" THEN fails(r.err)
                 ELSE [fr EXCEPT !.db = r.db, !.v = r.reply]

(***************************************************************************)
(* client.py                                                               *)
(***************************************************************************)
\* a variant of wrapper: f(args) in place of f(*args)
wrapper_packed(self, args) ==
    LET r == StrictRedis_execute_command(self, <<Tup(args)>>)
    IN  [r EXCEPT !.printed = <<args>> \o @]

\* enable_debug(f): print the arguments, then call f with them
wrapper(self, args) ==
    LET r == StrictRedis_execute_command(self, args)
    IN  [r EXCEPT !.printed = <<args>> \o @]

\* a variant of execute_command: a request that failed is sent once more
execute_command_retry(self, args) ==
    LET r1 == IF self.debug THEN wrapper(self, args)
              ELSE StrictRedis_execute_command(self, args)
        r2 == StrictRedis_execute_command([self EXCEPT !.fault = "ok"], args)
    IN  IF r1.terr = "" THEN r1
        ELSE [r2 EXCEPT !.reqs = r1.reqs \o @, !.printed = r1.printed, !.terr = r1.terr]

\* Client.__init__: with debug the instance's execute_command is the wrapper
execute_command(self, args) ==
    IF self.debug THEN wrapper(self, args) ELSE StrictRedis_execute_command(self, args)

\* "return <reply>.decode()" and "return utils.list2dict(<reply>)"
ReturnDecoded(fr) ==
    IF fr.exc # "" THEN fr
    ELSE LET x == decode(fr.v) IN IF x.t = "exc" THEN Raise(fr, x.v) ELSE Return(fr, x)

ReturnDict(fr) ==
    IF fr.exc # "" THEN fr
    ELSE IF fr.v.t # "list" THEN Raise(fr, "TypeError") ELSE Return(fr, list2dict(fr.v))

ReturnNames(fr) ==
    IF fr.exc # "" THEN fr
    ELSE IF fr.v.t # "list" THEN Raise(fr, "TypeError")
    ELSE LET xs == [i \in 1..Len(fr.v.v) |-> decode(fr.v.v[i])]
         IN  IF \E i \in 1..Len(xs) : xs[i].t = "exc" THEN Raise(fr, "AttributeError")
             ELSE Return(fr, L(xs))

loadbackend(self, identifier, path) ==
    ReturnDecoded(execute_command(self, <<S("AI.CONFIG LOADBACKEND"), identifier, path>>))

\* a variant of is_not_None: the truth value of x
is_not_None_truthy(x) == Truthy(x)

\* "x is not None", the test of modelset's optional batch, minbatch and tag
is_not_None(x) == x # None

modelset(self, name, backend, device, data, batch, minbatch, tag, inputs, outputs) ==
    LET args0 == <<S("AI.MODELSET"), name, backend, device>>
        args1 == args0 \o (IF is_not_None(batch) THEN <<S("BATCHSIZE"), batch>> ELSE <<>>)
        args2 == args1 \o (IF is_not_None(minbatch) THEN <<S("MINBATCHSIZE"), minbatch>> ELSE <<>>)
        args3 == args2 \o (IF is_not_None(tag) THEN <<S("TAG"), tag>> ELSE <<>>)
    IN  IF upper(backend.v) = "TF"
        THEN IF ~all(<<inputs, outputs>>)
             THEN Raise(Start(self), "ValueError")
             ELSE ReturnDecoded(execute_command(self,
                      args3 \o <<S("INPUTS")>> \o listify(inputs)
                            \o <<S("OUTPUTS")>> \o listify(outputs) \o <<data>>))
        ELSE ReturnDecoded(execute_command(self, args3 \o <<data>>))

\* a variant of modelget: a failed request yields an empty mapping
modelget_swallow(self, name, meta_only) ==
    LET args == <<S("AI.MODELGET"), name, S("META")>>
                    \o (IF ~Truthy(meta_only) THEN <<S("BLOB")>> ELSE <<>>)
        r == execute_command(self, args)
    IN  IF r.exc # "" THEN Return(r, Dict(<<>>)) ELSE ReturnDict(r)

modelget(self, name, meta_only) ==
    LET args == <<S("AI.MODELGET"), name, S("META")>>
                    \o (IF ~Truthy(meta_only) THEN <<S("BLOB")>> ELSE <<>>)
    IN  ReturnDict(execute_command(self, args))

modeldel(self, name) ==
    ReturnDecoded(execute_command(self, <<S("AI.MODELDEL"), name>>))

modelrun(self, name, inputs, outputs) ==
    ReturnDecoded(execute_command(self,
        <<S("AI.MODELRUN"), name, S("INPUTS")>> \o listify(inputs)
            \o <<S("OUTPUTS")>> \o listify(outputs)))

modelscan(self) ==
    ReturnNames(execute_command(self, <<S("AI._MODELSCAN")>>))

\* a variant of tensorset: a tensor of any other type is sent as one value
tensorset_unchecked(self, key, tensor, shape, dtype) ==
    IF tensor.t = "ndarray"
    THEN LET b == numpy2blob(tensor)
         IN  ReturnDecoded(execute_command(self,
                 <<S("AI.TENSORSET"), key, b[1]>> \o b[2] \o <<S("BLOB"), b[3]>>))
    ELSE LET vals == IF tensor.t \in {"list", "tuple"} THEN tensor.v ELSE <<tensor>>
             shape1 == IF shape = None THEN Tup(<<I(Len(vals))>>) ELSE shape
         IN  ReturnDecoded(execute_command(self,
                 <<S("AI.TENSORSET"), key, dtype>> \o shape1.v \o <<S("VALUES")>> \o vals))

tensorset(self, key, tensor, shape, dtype) ==
    IF tensor.t = "ndarray"
    THEN LET b == numpy2blob(tensor)
         IN  ReturnDecoded(execute_command(self,
                 <<S("AI.TENSORSET"), key, b[1]>> \o b[2] \o <<S("BLOB"), b[3]>>))
    ELSE IF tensor.t \in {"list", "tuple"}
    THEN LET shape1 == IF shape = None THEN Tup(<<I(Len(tensor.v))>>) ELSE shape
         IN  ReturnDecoded(execute_command(self,
                 <<S("AI.TENSORSET"), key, dtype>> \o shape1.v \o <<S("VALUES")>> \o tensor.v))
    ELSE Raise(Start(self), "TypeError")

\* res[k] of the mapping list2dict returned; a KeyError when k is absent
GetItem(fr, k) ==
    IF k \in DOMAIN fr.v.v THEN [fr EXCEPT !.read = @ \cup {k}]
    ELSE [Raise(fr, "KeyError") EXCEPT !.read = @ \cup {k}]

\* a variant of tensorget_branch: "elif as_numpy" in place of "elif as_numpy is True"
tensorget_branch_truthy(as_numpy, meta_only) ==
    IF Truthy(meta_only) THEN "meta"
    ELSE IF Truthy(as_numpy) THEN "numpy"
    ELSE "values"

\* the branch of tensorget taken after the reply: "meta", "numpy" or "values"
tensorget_branch(as_numpy, meta_only) ==
    IF Truthy(meta_only) THEN "meta"
    ELSE IF as_numpy = Bool(TRUE) THEN "numpy"
    ELSE "values"

\* res[k] for each k of ks in turn, up to the first KeyError
RECURSIVE GetItems(_, _)
GetItems(fr, ks) ==
    IF ks = <<>> THEN fr
    ELSE LET r == GetItem(fr, Head(ks))
         IN  IF r.exc # "" THEN r ELSE GetItems(r, Tail(ks))

\* a variant of tensorget_numpy: blob2numpy(res['blob'], res['dtype'], res['shape'])
tensorget_numpy_swapped(fr) ==
    LET r == GetItems(fr, <<"blob", "dtype", "shape">>)
    IN  IF r.exc # "" THEN r
        ELSE LET a == blob2numpy(fr.v.v["blob"], fr.v.v["dtype"], fr.v.v["shape"])
             IN  IF a.t = "exc" THEN Raise(r, a.v) ELSE Return(r, a)

\* return utils.blob2numpy(res['blob'], res['shape'], res['dtype'])
tensorget_numpy(fr) ==
    LET r == GetItems(fr, <<"blob", "shape", "dtype">>)
    IN  IF r.exc # "" THEN r
        ELSE LET a == blob2numpy(fr.v.v["blob"], fr.v.v["shape"], fr.v.v["dtype"])
             IN  IF a.t = "exc" THEN Raise(r, a.v) ELSE Return(r, a)

\* the values of res coerced in place to float or int by res['dtype']
tensorget_values(fr) ==
    LET r == GetItems(fr, <<"dtype", "values">>)
    IN  IF r.exc # "" THEN r
        ELSE LET target == IF fr.v.v["dtype"] \in {S("FLOAT"), S("DOUBLE")}
                           THEN "float" ELSE "int"
                 vs == un_bytize(fr.v.v["values"], target)
             IN  IF vs.t = "exc" THEN Raise(r, vs.v)
                 ELSE Return(r, Dict([fr.v.v EXCEPT !["values"] = vs]))

tensorget_decode(fr, branch) ==
    IF fr.exc # "" \/ branch = "meta" THEN fr
    ELSE IF branch = "numpy" THEN tensorget_numpy(fr)
    ELSE tensorget_values(fr)

tensorget(self, key, as_numpy, meta_only) ==
    LET args == <<S("AI.TENSORGET"), key, S("META")>>
                   \o (IF ~Truthy(meta_only)
                       THEN (IF as_numpy = Bool(TRUE) THEN <<S("BLOB")>> ELSE <<S("VALUES")>>)
                       ELSE <<>>)
    IN  tensorget_decode(ReturnDict(execute_command(self, args)),
                         tensorget_branch(as_numpy, meta_only))

scriptset(self, name, device, script, tag) ==
    ReturnDecoded(execute_command(self,
        <<S("AI.SCRIPTSET"), name, device>>
            \o (IF Truthy(tag) THEN <<S("TAG"), tag>> ELSE <<>>) \o <<script>>))

scriptget(self, name, meta_only) ==
    LET args == <<S("AI.SCRIPTGET"), name, S("META")>>
                    \o (IF ~Truthy(meta_only) THEN <<S("SOURCE")>> ELSE <<>>)
    IN  ReturnDict(execute_command(self, args))

scriptdel(self, name) ==
    ReturnDecoded(execute_command(self, <<S("AI.SCRIPTDEL"), name>>))

scriptrun(self, name, function, inputs, outputs) ==
    ReturnDecoded(execute_command(self,
        <<S("AI.SCRIPTRUN"), name, function, S("INPUTS")>> \o listify(inputs)
            \o <<S("OUTPUTS")>> \o listify(outputs)))

scriptscan(self) ==
    ReturnNames(execute_command(self, <<S("AI._SCRIPTSCAN")>>))

infoget(self, key) ==
    ReturnDict(execute_command(self, <<S("AI.INFO"), key>>))

inforeset(self, key) ==
    ReturnDecoded(execute_command(self, <<S("AI.INFO"), key, S("RESETSTAT")>>))

(***************************************************************************)
(* The arguments the calls are made with.                                  *)
(***************************************************************************)
\* what the environment does to a request: serve it, drop the connection, or
\* answer with an error reply
Faults == {"ok", "conn", "resp"}

NoModifiers == <<None, None, None>>
NoNames == <<None, None>>
BothNames == <<L(<<S("a"), S("b")>>), L(<<S("c")>>)>>

\* (batch, minbatch, tag)
Modifiers ==
    {<<I(2), None, S("t")>>, <<None, I(1), None>>, <<I(0), I(1), S("")>>}

\* (inputs, outputs)
NodeNames ==
    {NoNames, <<L(<<S("a"), S("b")>>), None>>, <<None, L(<<S("c")>>)>>,
     <<L(<<>>), L(<<S("c")>>)>>, BothNames, <<S("a"), S("c")>>}

\* (backend, (batch, minbatch, tag), (inputs, outputs))
ModelsetArgs ==
    ({S("TF")} \X {NoModifiers} \X NodeNames)
    \cup ({S("tf"), S("TORCH")} \X {NoModifiers} \X {NoNames, BothNames})
    \cup ({S("TF")} \X Modifiers \X {BothNames})
    \cup ({S("TORCH")} \X Modifiers \X {NoNames})

\* the elements of the sample array of an element type
Sample(dt) ==
    CASE dt = "int8" -> <<-1, 100>> [] dt = "uint8" -> <<200, 7>>
      [] dt = "int16" -> <<-2, 258>> [] dt = "uint16" -> <<65535, 256>>
      [] dt = "int32" -> <<-3, 70000>> [] dt = "int64" -> <<-4, 16777217>>
      [] dt = "float32" -> <<1065353216, -1082130432>>
      [] dt = "float64" -> <<1, -2>>

Data(dt, n) == [i \in 1..n |-> Sample(dt)[((i - 1) % 2) + 1]]

Arrays ==
    {NDArray(dt, <<1, MaxElems>>, Data(dt, MaxElems)) : dt \in NpDtypes}
    \cup {NDArray("float32", <<MaxElems>>, Data("float32", MaxElems)),
          NDArray("int16", <<MaxElems, 1>>, Data("int16", MaxElems))}

Ints(n) == [i \in 1..n |-> I(i)]

NotTensors == {Dict(<<>>), I(5), S("12"), None}

\* (tensor, shape, dtype)
TensorArgs ==
    {<<a, None, None>> : a \in Arrays}
    \cup {<<NDArray("int8", <<MaxElems>>, Data("int8", MaxElems)), Tup(<<I(3)>>), S("FLOAT")>>,
          <<L(Ints(MaxElems)), None, S("FLOAT")>>,
          <<L(Ints(MaxElems)), Tup(<<I(MaxElems)>>), S("INT16")>>,
          <<L(Ints(MaxElems)), Tup(<<I(MaxElems), I(1)>>), S("FLOAT")>>,
          <<Tup(Ints(MaxElems)), Tup(<<I(1), I(MaxElems)>>), S("INT16")>>,
          <<L(Ints(2 * MaxElems)), Tup(<<I(2), I(MaxElems)>>), S("FLOAT")>>,
          <<L(Ints(MaxElems)), Tup(<<I(MaxElems), I(2)>>), S("FLOAT")>>,
          <<L([i \in 1..MaxElems |-> L(<<I(i)>>)]), Tup(<<I(MaxElems), I(1)>>), S("FLOAT")>>,
          <<L(Ints(MaxElems)), None, None>>,
          <<L(Ints(MaxElems)), Tup(<<I(MaxElems)>>), None>>}
    \cup {<<x, sd[1], sd[2]>> : x \in NotTensors,
                                 sd \in {<<None, None>>, <<Tup(<<I(1)>>), S("FLOAT")>>}}

Flags == {Bool(TRUE), Bool(FALSE), I(1)}

(***************************************************************************)
(* The state machine: one action per public method of Client.              *)
(***************************************************************************)
Self(d, f) == [debug |-> d, db |-> db[d], fault |-> f]

Outcome(fr) ==
    [reqs |-> fr.reqs, printed |-> fr.printed, terr |-> fr.terr, read |-> fr.read,
     exc |-> fr.exc, v |-> fr.v]

Init ==
    /\ calls = 0
    /\ op = [name |-> "__init__", a |-> <<>>]
    /\ nsent = [d \in BOOLEAN |-> 0]
    /\ db = [d \in BOOLEAN |-> <<>>]
    /\ res = [d \in BOOLEAN |-> Outcome(Start([db |-> <<>>]))]

\* the call of method name with arguments a, r[d] being its course on client d
Step(name, a, r) ==
    /\ calls < MaxCalls
    /\ calls' = calls + 1
    /\ op' = [name |-> name, a |-> a]
    /\ nsent' = [d \in BOOLEAN |-> nsent[d] + Len(r[d].reqs)]
    /\ db' = [d \in BOOLEAN |-> r[d].db]
    /\ res' = [d \in BOOLEAN |-> Outcome(r[d])]

Call_loadbackend ==
    \E f \in Faults :
        Step("loadbackend", [identifier |-> S("TF"), path |-> S("/lib/tf.so")],
             [d \in BOOLEAN |-> loadbackend(Self(d, f), S("TF"), S("/lib/tf.so"))])

Call_modelset ==
    \E f \in Faults, x \in ModelsetArgs :
        Step("modelset",
             [name |-> S("m"), backend |-> x[1], device |-> S("CPU"),
              data |-> Blob(<<1, 2>>), batch |-> x[2][1], minbatch |-> x[2][2],
              tag |-> x[2][3], inputs |-> x[3][1], outputs |-> x[3][2]],
             [d \in BOOLEAN |->
                modelset(Self(d, f), S("m"), x[1], S("CPU"), Blob(<<1, 2>>),
                         x[2][1], x[2][2], x[2][3], x[3][1], x[3][2])])

Call_modelget ==
    \E f \in Faults, meta_only \in {Bool(TRUE), Bool(FALSE)} :
        Step("modelget", [name |-> S("m"), meta_only |-> meta_only],
             [d \in BOOLEAN |-> modelget(Self(d, f), S("m"), meta_only)])

Call_modeldel ==
    \E f \in Faults :
        Step("modeldel", [name |-> S("m")],
             [d \in BOOLEAN |-> modeldel(Self(d, f), S("m"))])

Call_modelrun ==
    \E f \in Faults, inputs \in {L(<<S("x"), S("y")>>)} :
        Step("modelrun", [name |-> S("m"), inputs |-> inputs, outputs |-> L(<<S("z")>>)],
             [d \in BOOLEAN |-> modelrun(Self(d, f), S("m"), inputs, L(<<S("z")>>))])

Call_modelscan ==
    \E f \in Faults :
        Step("modelscan", <<>>, [d \in BOOLEAN |-> modelscan(Self(d, f))])

Call_tensorset ==
    \E f \in {"ok", "conn"}, t \in TensorArgs :
        Step("tensorset", [key |-> S("x"), tensor |-> t[1], shape |-> t[2], dtype |-> t[3]],
             [d \in BOOLEAN |-> tensorset(Self(d, f), S("x"), t[1], t[2], t[3])])

Call_tensorget ==
    \E f \in {"ok", "conn"}, key \in {S("x"), S("y")}, as_numpy \in Flags,
       meta_only \in {Bool(TRUE), Bool(FALSE)} :
        Step("tensorget", [key |-> key, as_numpy |-> as_numpy, meta_only |-> meta_only],
             [d \in BOOLEAN |-> tensorget(Self(d, f), key, as_numpy, meta_only)])

Call_scriptset ==
    \E f \in Faults, tag \in {None, S(""), S("t")} :
        Step("scriptset",
             [name |-> S("s"), device |-> S("CPU"), script |-> S("def f(): pass"), tag |-> tag],
             [d \in BOOLEAN |->
                scriptset(Self(d, f), S("s"), S("CPU"), S("def f(): pass"), tag)])

Call_scriptget ==
    \E f \in Faults, meta_only \in {Bool(TRUE), Bool(FALSE)} :
        Step("scriptget", [name |-> S("s"), meta_only |-> meta_only],
             [d \in BOOLEAN |-> scriptget(Self(d, f), S("s"), meta_only)])

Call_scriptdel ==
    \E f \in Faults :
        Step("scriptdel", [name |-> S("s")],
             [d \in BOOLEAN |-> scriptdel(Self(d, f), S("s"))])

Call_scriptrun ==
    \E f \in Faults, inputs \in {L(<<S("x"), S("y")>>), S("x")} :
        Step("scriptrun",
             [name |-> S("s"), function |-> S("f"), inputs |-> inputs, outputs |-> S("z")],
             [d \in BOOLEAN |-> scriptrun(Self(d, f), S("s"), S("f"), inputs, S("z"))])

Call_scriptscan ==
    \E f \in Faults :
        Step("scriptscan", <<>>, [d \in BOOLEAN |-> scriptscan(Self(d, f))])

Call_infoget ==
    \E f \in Faults :
        Step("infoget", [key |-> S("m")], [d \in BOOLEAN |-> infoget(Self(d, f), S("m"))])

Call_inforeset ==
    \E f \in Faults :
        Step("inforeset", [key |-> S("m")], [d \in BOOLEAN |-> inforeset(Self(d, f), S("m"))])

Next ==
    \/ Call_loadbackend
    \/ Call_modelset
    \/ Call_modelget
    \/ Call_modeldel
    \/ Call_modelrun
    \/ Call_modelscan
    \/ Call_tensorset
    \/ Call_tensorget
    \/ Call_scriptset
    \/ Call_scriptget
    \/ Call_scriptdel
    \/ Call_scriptrun
    \/ Call_scriptscan
    \/ Call_infoget
    \/ Call_inforeset

Spec == Init /\ [][Next]_vars

(***************************************************************************)
(* The properties.                                                         *)
(***************************************************************************)
Clients == BOOLEAN

\* the one request of the last call of client d
Req(d) == res[d].reqs[1]

\* a backend name that is TF up to case
IsTF(b) == b.v \in {"TF", "tf", "Tf", "tF"}

\* no node name given: the argument omitted, or given empty
NoneGiven(x) == x = None \/ (x.t \in {"list", "tuple", "str"} /\ Len(x.v) = 0)

\* the names of a node-name argument: a list's elements, or the single name
Names(x) == IF x.t \in {"list", "tuple"} THEN x.v ELSE <<x>>

Opt(marker, x) == IF x = None THEN <<>> ELSE <<S(marker), x>>

Suffix(q, n) == SubSeq(q, Len(q) - n + 1, Len(q))

\* C1: a modelset call with a TF backend (up to case) whose input or output node
\* names are missing raises ValueError and hands the transport nothing; with
\* both given it hands the transport exactly one request, which ends in INPUTS,
\* the input names, OUTPUTS, the output names and the graph data.
C1_ModelsetTF ==
    \A d \in Clients :
        (op.name = "modelset" /\ IsTF(op.a.backend)) =>
            IF NoneGiven(op.a.inputs) \/ NoneGiven(op.a.outputs)
            THEN res[d].exc = "ValueError" /\ res[d].reqs = <<>>
            ELSE /\ Len(res[d].reqs) = 1
                 /\ LET tail == <<S("INPUTS")>> \o Names(op.a.inputs)
                                 \o <<S("OUTPUTS")>> \o Names(op.a.outputs) \o <<op.a.data>>
                    IN  /\ Len(Req(d)) >= Len(tail)
                        /\ Suffix(Req(d), Len(tail)) = tail

C1_Witness ==
    /\ op.name = "modelset" /\ op.a.backend = S("TF")
    /\ op.a.inputs = L(<<S("a"), S("b")>>) /\ op.a.outputs = None
    /\ res[FALSE].exc = "ValueError" /\ nsent[FALSE] = 0

\* C2: a tensorset call whose tensor is neither a native array nor a list nor a
\* tuple raises TypeError and hands the transport nothing, whatever the key,
\* the shape and the dtype.
C2_TensorsetType ==
    \A d \in Clients :
        (op.name = "tensorset" /\ op.a.tensor.t \notin {"ndarray", "list", "tuple"}) =>
            res[d].exc = "TypeError" /\ res[d].reqs = <<>>

C2_Witness ==
    /\ op.name = "tensorset" /\ op.a.tensor = S("12")
    /\ op.a.shape # None /\ op.a.dtype = S("FLOAT")
    /\ res[FALSE].exc = "TypeError" /\ res[FALSE].reqs = <<>>

\* a call the client rejects before it builds a request
Rejected ==
    \/ op.name = "modelset" /\ IsTF(op.a.backend)
          /\ (NoneGiven(op.a.inputs) \/ NoneGiven(op.a.outputs))
    \/ op.name = "tensorset" /\ op.a.tensor.t \notin {"ndarray", "list", "tuple"}

\* C3: every call that is not rejected by the client's validation hands the
\* transport exactly one request, a rejected call none; the requests sent never
\* outnumber the calls made.
C3_OneRequestPerCall ==
    \A d \in Clients :
        /\ nsent[d] <= calls
        /\ op.name # "__init__" => Len(res[d].reqs) = (IF Rejected THEN 0 ELSE 1)

C3_Witness ==
    /\ calls = MaxCalls /\ nsent[FALSE] = MaxCalls
    /\ op.name = "scriptrun" /\ res[FALSE].terr = "ConnectionError"

\* C5: an error the transport raises for the call's request is the error the
\* caller gets, after that one request.
C5_TransportErrorPropagates ==
    \A d \in Clients :
        res[d].terr # "" => res[d].exc = res[d].terr /\ Len(res[d].reqs) = 1

C5_Witness ==
    /\ op.name = "modelget"
    /\ res[FALSE].terr = "ResponseError" /\ res[FALSE].exc = "ResponseError"

\* the argument sequence of a modelset call: the modifiers supplied, each after
\* its marker, and the node names when withInputs and withOutputs say so
ModelsetRequest(a, withInputs, withOutputs) ==
    <<S("AI.MODELSET"), a.name, a.backend, a.device>>
        \o Opt("BATCHSIZE", a.batch) \o Opt("MINBATCHSIZE", a.minbatch) \o Opt("TAG", a.tag)
        \o (IF withInputs THEN <<S("INPUTS")>> \o Names(a.inputs) ELSE <<>>)
        \o (IF withOutputs THEN <<S("OUTPUTS")>> \o Names(a.outputs) ELSE <<>>)
        \o <<a.data>>

\* C6 as claimed: every modifier of modelset, the node names included, is in the
\* request after its marker exactly when the caller supplied it.
C6_Original ==
    \A d \in Clients :
        (op.name = "modelset" /\ Len(res[d].reqs) = 1) =>
            Req(d) = ModelsetRequest(op.a, op.a.inputs # None, op.a.outputs # None)

\* C6: the request of modelset is name, backend, device, then BATCHSIZE,
\* MINBATCHSIZE and TAG each with its value exactly when supplied, then INPUTS
\* and OUTPUTS with the node names exactly when the backend is TF up to case
\* (and absent for any other backend, supplied or not), then the graph data.
C6_ModelsetModifiers ==
    \A d \in Clients :
        (op.name = "modelset" /\ Len(res[d].reqs) = 1) =>
            Req(d) = ModelsetRequest(op.a, IsTF(op.a.backend), IsTF(op.a.backend))

C6_Witness ==
    /\ op.name = "modelset" /\ op.a.backend = S("TORCH")
    /\ op.a.inputs = L(<<S("a"), S("b")>>) /\ op.a.outputs = L(<<S("c")>>)
    /\ Len(res[FALSE].reqs) = 1 /\ res[FALSE].exc = ""
    /\ \A i \in 1..Len(Req(FALSE)) : Req(FALSE)[i] \notin {S("INPUTS"), S("OUTPUTS")}

\* a sequence's scalar values in order, nested sequences opened
RECURSIVE Flat(_)
Flat(q) ==
    IF q = <<>> THEN <<>>
    ELSE (IF Head(q).t \in {"list", "tuple"} THEN Flat(Head(q).v) ELSE <<Head(q)>>)
         \o Flat(Tail(q))

ListPath == op.name = "tensorset" /\ op.a.tensor.t \in {"list", "tuple"}

\* C4 as claimed: the request of a tensorset call with a list or tuple and an
\* explicit shape and dtype is AI.TENSORSET, key, dtype, the shape, VALUES, the
\* flattened values, as many values as the product of the shape.
C4_Original ==
    \A d \in Clients :
        (ListPath /\ op.a.shape # None /\ op.a.dtype # None /\ Len(res[d].reqs) = 1) =>
            /\ Req(d) = <<S("AI.TENSORSET"), op.a.key, op.a.dtype>> \o op.a.shape.v
                           \o <<S("VALUES")>> \o Flat(op.a.tensor.v)
            /\ Len(Req(d)) - (4 + Len(op.a.shape.v))
                  = Product([i \in 1..Len(op.a.shape.v) |-> op.a.shape.v[i].v])

\* C9 as claimed: the request of a tensorset call with a list or tuple carries
\* the caller's shape, or the length of the sequence when none was given, and
\* after the key a dtype the caller supplied.
C9_Original ==
    \A d \in Clients :
        (ListPath /\ Len(res[d].reqs) = 1) =>
            LET shape == IF op.a.shape # None THEN op.a.shape.v
                         ELSE <<I(Len(op.a.tensor.v))>>
            IN  /\ SubSeq(Req(d), 4, 3 + Len(shape)) = shape
                /\ Req(d)[4 + Len(shape)] = S("VALUES")
                /\ Req(d)[3] = op.a.dtype
                /\ Req(d)[3].t = "str"

\* C7: a tensorget in native-array mode that follows a successful tensorset of a
\* native array on the same key, and gets its reply, returns that array: the
\* same element type, shape and values.
C7_RoundTrip ==
    [][\A d \in Clients :
         (/\ op.name = "tensorset" /\ op.a.tensor.t = "ndarray" /\ res[d].exc = ""
          /\ op'.name = "tensorget" /\ op'.a.key = op.a.key
          /\ op'.a.as_numpy = Bool(TRUE) /\ ~Truthy(op'.a.meta_only)
          /\ res'[d].terr = "")
         => (res'[d].exc = "" /\ res'[d].v = op.a.tensor)]_vars

C7_Witness ==
    /\ op.name = "tensorget" /\ op.a.key = S("x") /\ op.a.as_numpy = Bool(TRUE)
    /\ res[FALSE].exc = "" /\ res[FALSE].v.t = "ndarray"
    /\ res[FALSE].v.v.dtype = "int64" /\ res[FALSE].v.v.shape = <<1, MaxElems>>
    /\ res[FALSE].v.v.data[1] = -4

\* the payload markers of a tensorget request, after AI.TENSORGET, key, META
Asked(d) == {Req(d)[i].v : i \in 4..Len(Req(d))}

\* C8: tensorget always asks for META; with meta_only it asks for no payload
\* and returns the mapping without reading blob or values; otherwise it asks
\* for BLOB or for VALUES, and from the reply it reads blob exactly when it
\* asked for BLOB (returning a native array) and values exactly when it asked
\* for VALUES (returning them as floats for FLOAT and DOUBLE, as ints
\* otherwise).
C8_TensorgetPayload ==
    \A d \in Clients :
        op.name = "tensorget" =>
            /\ Len(res[d].reqs) = 1
            /\ Len(Req(d)) >= 3 /\ Req(d)[3] = S("META")
            /\ IF Truthy(op.a.meta_only)
               THEN /\ Asked(d) = {}
                    /\ res[d].read = {}
                    /\ res[d].exc = "" => (res[d].v.t = "dict"
                                           /\ DOMAIN res[d].v.v = {"dtype", "shape"})
               ELSE /\ Asked(d) \in {{"BLOB"}, {"VALUES"}}
                    /\ res[d].terr = "" =>
                          /\ ("blob" \in res[d].read) = ("BLOB" \in Asked(d))
                          /\ ("values" \in res[d].read) = ("VALUES" \in Asked(d))
                    /\ (res[d].exc = "" /\ "BLOB" \in Asked(d)) => res[d].v.t = "ndarray"
                    /\ (res[d].exc = "" /\ "VALUES" \in Asked(d)) =>
                          /\ res[d].v.t = "dict"
                          /\ \A i \in 1..Len(res[d].v.v["values"].v) :
                                res[d].v.v["values"].v[i].t =
                                   (IF res[d].v.v["dtype"].v \in {"FLOAT", "DOUBLE"}
                                    THEN "float" ELSE "int")

C8_Witness ==
    /\ op.name = "tensorget" /\ op.a.as_numpy = I(1) /\ op.a.meta_only = Bool(FALSE)
    /\ res[FALSE].exc = "" /\ res[FALSE].read = {"dtype", "values"}
    /\ res[FALSE].v.v["dtype"] = S("FLOAT")
    /\ res[FALSE].v.v["values"].v[1].t = "float"

\* C10: the client constructed with debug and the one constructed without hand
\* the transport the same requests, leave the server in the same state and end
\* every call the same way; the debug client prints the arguments of each
\* request and the other prints nothing.
C10_DebugEquivalent ==
    /\ res[TRUE].reqs = res[FALSE].reqs
    /\ res[TRUE].exc = res[FALSE].exc
    /\ res[TRUE].v = res[FALSE].v
    /\ nsent[TRUE] = nsent[FALSE]
    /\ db[TRUE] = db[FALSE]
    /\ res[TRUE].printed = res[TRUE].reqs
    /\ res[FALSE].printed = <<>>

C10_Witness ==
    /\ op.name = "tensorset" /\ op.a.tensor.t = "ndarray"
    /\ res[TRUE].printed # <<>> /\ res[TRUE].printed = res[FALSE].reqs
    /\ res[TRUE].exc = "" /\ res[FALSE].v = S("OK")

====
